---- MODULE Spec2Model ----
(***************************************************************************)
(* Model of sums_of_two_squares.py: the representations of an integer n   *)
(* as a sum of two squares, built from the prime factorization of n.      *)
(*                                                                         *)
(* sum_of_two_squares(n) is modelled as a state machine whose steps are   *)
(* the entry block, one iteration of each of its two loops over the prime *)
(* factors, and the final return.  r_2, find_quadratic_nonresidue,        *)
(* rep_prod and rep_prime_power are operators.  The sympy primitives      *)
(* (factorint, divisors, primerange, sqrt) and the builtin pow are        *)
(* modelled by what they compute.                                         *)
(***************************************************************************)
EXTENDS Integers, Sequences, FiniteSets, TLC

VARIABLES n, pc, fac, r2, candidates, prime_reps, nonres, reps, i, result,
          args, ret

vars == <<n, pc, fac, r2, candidates, prime_reps, nonres, reps, i, result,
          args, ret>>

(***************************************************************************)
(* Bounds of the checked input space.                                      *)
(***************************************************************************)
\* sum_of_two_squares is run on every n in -MaxNeg .. MaxN
MaxN == 400
MaxNeg == 3
\* rep_prod is run on every a, b, c, d in -MaxArg .. MaxArg
MaxArg == 3
\* rep_prime_power is run on every r0 with components in 0 .. MaxComp whose
\* squares sum to a prime, and every exponent in 1 .. MaxK
MaxComp == 6
MaxK == 4

\* Inputs beyond MaxN with several prime factors p = 1 (mod 24), the only
\* primes for which find_quadratic_nonresidue reads the candidate sequence:
\* 7081 = 73 * 97, 75433 = 241 * 313, 34472881 = 241 * 313 * 457.
ExtraInputs == {7081, 75433, 34472881}

Inputs == (-MaxNeg .. MaxN) \cup ExtraInputs

(***************************************************************************)
(* Arithmetic primitives.                                                  *)
(***************************************************************************)
Abs(x) == IF x < 0 THEN -x ELSE x

Min2(x, y) == IF x <= y THEN x ELSE y

Max2(x, y) == IF x <= y THEN y ELSE x

RECURSIVE IntPow(_, _)
\* pow(b, e) for e >= 0
IntPow(b, e) == IF e = 0 THEN 1 ELSE b * IntPow(b, e - 1)

RECURSIVE PowMod(_, _, _)
\* pow(b, e) % m, by square and multiply (the value is the same, the
\* intermediate results stay below m * m)
PowMod(b, e, m) ==
    IF e = 0 THEN 1 % m
    ELSE LET h == PowMod(b, e \div 2, m)
             s == (h * h) % m
         IN IF e % 2 = 1 THEN (s * (b % m)) % m ELSE s

RECURSIVE ISqrtIn(_, _, _)
ISqrtIn(x, lo, hi) ==
    IF lo >= hi THEN lo
    ELSE LET mid == (lo + hi + 1) \div 2
         IN IF mid * mid <= x THEN ISqrtIn(x, mid, hi)
                              ELSE ISqrtIn(x, lo, mid - 1)

\* floor of the square root of x >= 0
ISqrt(x) == ISqrtIn(x, 0, Min2(x, 46340))

\* a >= sqrt(p), the exact comparison sympy makes
GeqSqrt(a, p) == a >= 0 /\ a * a >= p

IsPrime(q) == q >= 2 /\ \A d \in 2 .. ISqrt(q) : q % d # 0

RECURSIVE SeqOfRange(_, _)
\* the primes q with lo <= q <= hi, in ascending order
SeqOfRange(lo, hi) ==
    IF lo > hi THEN <<>>
    ELSE IF IsPrime(lo) THEN <<lo>> \o SeqOfRange(lo + 1, hi)
         ELSE SeqOfRange(lo + 1, hi)

\* primerange(a, sqrt(x) + 1): the primes q with a <= q < sqrt(x) + 1,
\* ascending; x = 0 stands for the upper bound 0 (no primes at all)
primerange(a, x) ==
    IF x <= 0 THEN <<>>
    ELSE LET s == ISqrt(x)
             top == IF s * s = x THEN s ELSE s + 1   \* largest q with q - 1 < sqrt(x)
         IN SeqOfRange(a, top)

\* the least divisor >= 2 of m >= 2
LeastFactor(m) ==
    LET D == {d \in 2 .. ISqrt(m) : m % d = 0}
    IN IF D = {} THEN m ELSE CHOOSE d \in D : \A e \in D : d <= e

RECURSIVE TrialDivide(_)
\* the prime factorization of m >= 1 as an ascending sequence of
\* <<prime, exponent>>
TrialDivide(m) ==
    IF m = 1 THEN <<>>
    ELSE LET d == LeastFactor(m)
             rest == TrialDivide(m \div d)
         IN IF Len(rest) > 0 /\ rest[1][1] = d
            THEN << <<d, rest[1][2] + 1>> >> \o Tail(rest)
            ELSE << <<d, 1>> >> \o rest

\* factorint(m): the primes of m in ascending order with their exponents
factorint(m) == TrialDivide(m)

\* divisors(m) for m >= 1
divisors(m) ==
    LET s == ISqrt(m)
        low == {d \in 1 .. s : m % d = 0}
    IN low \cup {m \div d : d \in low}

(***************************************************************************)
(* r_2(n), lines 7-17.                                                     *)
(***************************************************************************)
r_2(m) ==
    LET d4(k) == Cardinality({d \in divisors(m) : d % 4 = k})
    IN IF m # 0 THEN 4 * (d4(1) - d4(3)) ELSE 1

(***************************************************************************)
(* find_quadratic_nonresidue(p, candidates), lines 20-37.                  *)
(* candidates is a generator: the loop at line 34 takes its items one by   *)
(* one and the items taken are gone for every later reader.  The result is *)
(* [found, q, rest]: found = FALSE is the return value None, rest is what  *)
(* the generator passed in still holds after the call.                     *)
(***************************************************************************)
RECURSIVE ScanCandidates(_, _)
\* the loop of lines 34-37
ScanCandidates(p, cand) ==
    IF Len(cand) = 0 THEN [found |-> FALSE, q |-> 0, rest |-> cand]
    ELSE LET q == Head(cand)
         IN IF PowMod(p % q, (q - 1) \div 2, q) = q - 1
            THEN [found |-> TRUE, q |-> q, rest |-> Tail(cand)]
            ELSE ScanCandidates(p, Tail(cand))

\* find_quadratic_nonresidue(p, candidates) with a candidate sequence given
find_quadratic_nonresidue(p, cand) ==
    IF p % 8 = 5 THEN [found |-> TRUE, q |-> 2, rest |-> cand]
    ELSE IF p % 3 = 2 THEN [found |-> TRUE, q |-> 3, rest |-> cand]
    ELSE IF p % 8 = 1 THEN ScanCandidates(p, cand)
    ELSE [found |-> FALSE, q |-> 0, rest |-> cand]

\* find_quadratic_nonresidue(p, None): lines 30-33 create a fresh sequence
find_quadratic_nonresidue_fresh(p) ==
    LET res == find_quadratic_nonresidue(p, primerange(5, p))
    IN [found |-> res.found, q |-> res.q]

(***************************************************************************)
(* rep_prod(a, b, c, d), lines 40-50.                                      *)
(***************************************************************************)
\* tuple(sorted([x, y]))
SortedPair(x, y) == <<Min2(x, y), Max2(x, y)>>

\* rep_prod with line 47 repeating the second component of line 46
rep_prod_sign_slip(a, b, c, d) ==
    LET s == << SortedPair(Abs(a * c + b * d), Abs(a * d - b * c)),
                SortedPair(Abs(a * c - b * d), Abs(a * d - b * c)) >>
    IN IF s[1] # s[2] THEN s ELSE <<s[1]>>

\* rep_prod without the abs of lines 46-47
rep_prod_no_abs(a, b, c, d) ==
    LET s == << SortedPair(a * c + b * d, a * d - b * c),
                SortedPair(a * c - b * d, a * d + b * c) >>
    IN IF s[1] # s[2] THEN s ELSE <<s[1]>>

rep_prod(a, b, c, d) ==
    LET s == << SortedPair(Abs(a * c + b * d), Abs(a * d - b * c)),
                SortedPair(Abs(a * c - b * d), Abs(a * d + b * c)) >>
    IN IF s[1] # s[2] THEN s ELSE <<s[1]>>

(***************************************************************************)
(* rep_prime_power(representation_of_p, n), lines 53-65.                   *)
(* The for statement of line 62 iterates the list object rep_p named when  *)
(* the loop started; line 64 rebinds the name rep_p to the list new_rep,   *)
(* which line 63 keeps extending in place.                                 *)
(***************************************************************************)
RECURSIVE InnerLoop(_, _, _, _, _)
\* lines 62-64 from position idx of the iterated list; the value is rep_p
\* when the loop ends
InnerLoop(iterated, idx, new_rep, rep_p, r0) ==
    IF idx > Len(iterated) THEN rep_p
    ELSE LET r == iterated[idx]
             extended == new_rep \o rep_prod(r[1], r[2], r0[1], r0[2])
         IN InnerLoop(iterated, idx + 1, extended, extended, r0)

RECURSIVE OuterLoop(_, _, _)
\* lines 60-64: the remaining rounds of range(n - 1)
OuterLoop(rounds, rep_p, r0) ==
    IF rounds <= 0 THEN rep_p
    ELSE OuterLoop(rounds - 1, InnerLoop(rep_p, 1, <<>>, rep_p, r0), r0)

\* rep_prime_power with range(n) at line 60
rep_prime_power_extra_round(r0, k) == OuterLoop(k, <<r0>>, r0)

rep_prime_power(r0, k) == OuterLoop(k - 1, <<r0>>, r0)

(***************************************************************************)
(* sum_of_two_squares(n), lines 68-129.                                    *)
(*                                                                         *)
(* fac is the factorization as the sequence of <<prime, exponent>> in the  *)
(* order the dictionary is iterated; prime_reps and nonres are functions   *)
(* on the primes handled so far; nonres[p] is what the call of             *)
(* find_quadratic_nonresidue at line 105 returned for p.  pc is the        *)
(* position in the function, or the way it ended: "done" (a value was      *)
(* returned, in result), "ValueError", "TypeError", "ZeroDivisionError".   *)
(***************************************************************************)
NoResult == [count |-> -1, list |-> <<>>]

Idle ==
    /\ fac = <<>> /\ r2 = 0 /\ candidates = <<>> /\ prime_reps = <<>>
    /\ nonres = <<>> /\ reps = <<>> /\ i = 0 /\ result = NoResult

Init ==
    /\ n \in Inputs
    /\ pc = "start"
    /\ Idle
    /\ args = <<>> /\ ret = <<>>

RECURSIVE Prod(_, _)
\* prod(f(x) for x in seq) from position k on
Prod(seq, k) == IF k > Len(seq) THEN 1 ELSE seq[k] * Prod(seq, k + 1)

\* line 86
ClosedFormCount(f) ==
    4 * Prod([k \in 1 .. Len(f) |->
                 IF f[k][1] % 4 = 1 THEN f[k][2] + 1 ELSE 1], 1)

RECURSIVE MaxOf(_, _)
MaxOf(seq, k) == IF k > Len(seq) THEN 0 ELSE Max2(seq[k], MaxOf(seq, k + 1))

\* lines 90-92: the upper bound is the largest sqrt(x) + 1 over the primes
\* x = 1 (mod 8), and 0 when there is none
SharedCandidates(f) ==
    primerange(5, MaxOf([k \in 1 .. Len(f) |->
                            IF f[k][1] % 8 = 1 THEN f[k][1] ELSE 0], 1))

\* the edge-case tests of lines 76-80 with n < -1 at line 76
EdgeCase_off_by_one(m) ==
    IF m < -1 THEN "negative" ELSE IF m = 0 THEN "zero"
    ELSE IF m = 1 THEN "one" ELSE "general"

\* the edge-case tests of lines 76-80
EdgeCase(m) ==
    IF m < 0 THEN "negative" ELSE IF m = 0 THEN "zero"
    ELSE IF m = 1 THEN "one" ELSE "general"

\* lines 75-95
Enter ==
    /\ pc = "start"
    /\ IF EdgeCase(n) = "negative" THEN
           /\ pc' = "ValueError"
           /\ UNCHANGED <<fac, r2, candidates, prime_reps, reps, i, result>>
       ELSE IF EdgeCase(n) = "zero" THEN
           /\ pc' = "done"
           /\ result' = [count |-> 1, list |-> << <<0, 0>> >>]
           /\ UNCHANGED <<fac, r2, candidates, prime_reps, reps, i>>
       ELSE IF EdgeCase(n) = "one" THEN
           /\ pc' = "done"
           /\ result' = [count |-> 4, list |-> << <<0, 1>> >>]
           /\ UNCHANGED <<fac, r2, candidates, prime_reps, reps, i>>
       ELSE
           /\ fac' = factorint(n)
           /\ r2' = ClosedFormCount(fac')
           /\ candidates' = SharedCandidates(fac')
           /\ prime_reps' = (2 :> <<1, 1>>)
           /\ i' = 1
           /\ pc' = "prime_reps"
           /\ UNCHANGED <<reps, result>>
    /\ UNCHANGED <<n, nonres, args, ret>>

RECURSIVE Descent(_, _, _)
\* lines 107-108; the value is [ok, a, b], ok = FALSE when a % b divides by 0
Descent(a, b, p) ==
    IF ~GeqSqrt(a, p) THEN [ok |-> TRUE, a |-> a, b |-> b]
    ELSE IF b = 0 THEN [ok |-> FALSE, a |-> a, b |-> b]
    ELSE Descent(b, a % b, p)

\* lines 105-109 with the exponent (p - 1) // 2 at line 105
PrimeRep_half_exponent(p, g) == Descent(p, PowMod(g, (p - 1) \div 2, p), p)

\* lines 105-109 for the prime p, given the result g of line 105's call
PrimeRep(p, g) == Descent(p, PowMod(g, (p - 1) \div 4, p), p)

\* one iteration of the loop of lines 96-109; when the loop is over, line 112
PrimeRepsStep ==
    /\ pc = "prime_reps"
    /\ IF i > Len(fac) THEN
           /\ reps' = << <<0, 1>> >>
           /\ i' = 1
           /\ pc' = "compose"
           /\ UNCHANGED <<candidates, prime_reps, nonres, result>>
       ELSE LET p == fac[i][1]
                e == fac[i][2]
            IN IF p % 4 = 3 THEN
                   IF e % 2 = 1 THEN
                       /\ result' = [count |-> 0, list |-> <<>>]
                       /\ pc' = "done"
                       /\ UNCHANGED <<candidates, prime_reps, nonres, reps, i>>
                   ELSE
                       /\ prime_reps' = (p :> <<0, IntPow(p, e \div 2)>>) @@ prime_reps
                       /\ i' = i + 1
                       /\ UNCHANGED <<pc, candidates, nonres, reps, result>>
               ELSE IF p % 4 = 1 THEN
                   LET g == find_quadratic_nonresidue(p, candidates)
                   IN /\ candidates' = g.rest
                      /\ nonres' = (p :> [found |-> g.found, q |-> g.q]) @@ nonres
                      /\ IF ~g.found THEN
                             \* pow(None, (p - 1) // 4)
                             /\ pc' = "TypeError"
                             /\ UNCHANGED <<prime_reps, reps, i, result>>
                         ELSE LET d == PrimeRep(p, g.q)
                              IN IF ~d.ok THEN
                                     /\ pc' = "ZeroDivisionError"
                                     /\ UNCHANGED <<prime_reps, reps, i, result>>
                                 ELSE
                                     /\ prime_reps' = (p :> <<d.a, d.b>>) @@ prime_reps
                                     /\ i' = i + 1
                                     /\ UNCHANGED <<pc, reps, result>>
               ELSE
                   /\ i' = i + 1
                   /\ UNCHANGED <<pc, candidates, prime_reps, nonres, reps, result>>
    /\ UNCHANGED <<n, fac, r2, args, ret>>

RECURSIVE ComposeAll(_, _, _, _)
\* lines 123-125 (and 115-117 with a one-element second list): rep_prod of
\* every element of itertools.product(xs, ys), from position <<j, k>> on
ComposeAll(xs, ys, j, k) ==
    IF j > Len(xs) THEN <<>>
    ELSE IF k > Len(ys) THEN ComposeAll(xs, ys, j + 1, 1)
    ELSE rep_prod(xs[j][1], xs[j][2], ys[k][1], ys[k][2])
             \o ComposeAll(xs, ys, j, k + 1)

\* the new value of reps after the iteration of lines 113-126 for <<p, e>>
ComposeStep(rs, p, e, table) ==
    IF p % 4 = 3 THEN ComposeAll(rs, <<table[p]>>, 1, 1)
    ELSE IF p = 2 \/ p % 4 = 1
         THEN ComposeAll(rs, rep_prime_power(table[p], e), 1, 1)
         ELSE rs

RECURSIVE SortedList(_)
LexLess(x, y) == x[1] < y[1] \/ (x[1] = y[1] /\ x[2] < y[2])

\* sorted(list(S)) of a set of pairs
SortedList(S) ==
    IF S = {} THEN <<>>
    ELSE LET m == CHOOSE x \in S : \A y \in S \ {x} : LexLess(x, y)
         IN <<m>> \o SortedList(S \ {m})

\* line 129 returning reps as it is
Canonical_as_built(rs) == rs

\* line 129: sorted(list(set(reps)))
Canonical(rs) == SortedList({rs[k] : k \in 1 .. Len(rs)})

\* one iteration of the loop of lines 113-126; when the loop is over, the
\* return of line 129
Compose ==
    /\ pc = "compose"
    /\ IF i > Len(fac) THEN
           /\ result' = [count |-> r2, list |-> Canonical(reps)]
           /\ pc' = "done"
           /\ UNCHANGED <<reps, i>>
       ELSE
           /\ reps' = ComposeStep(reps, fac[i][1], fac[i][2], prime_reps)
           /\ i' = i + 1
           /\ UNCHANGED <<pc, result>>
    /\ UNCHANGED <<n, fac, r2, candidates, prime_reps, nonres, args, ret>>

Next == Enter \/ PrimeRepsStep \/ Compose

Spec == Init /\ [][Next]_vars

(***************************************************************************)
(* rep_prod and rep_prime_power called on their own: the arguments are     *)
(* drawn in the initial state (args) and the call stores its value (ret).  *)
(***************************************************************************)
ProdArgs == (-MaxArg) .. MaxArg

InitProd ==
    /\ pc = "rep_prod"
    /\ args \in ProdArgs \X ProdArgs \X ProdArgs \X ProdArgs
    /\ ret = <<>>
    /\ n = 0
    /\ Idle

CallRepProd ==
    /\ pc = "rep_prod"
    /\ ret' = rep_prod(args[1], args[2], args[3], args[4])
    /\ pc' = "rep_prod_done"
    /\ UNCHANGED <<n, fac, r2, candidates, prime_reps, nonres, reps, i, result, args>>

SpecProd == InitProd /\ [][CallRepProd]_vars

\* the primes rep_prime_power is meant for: 2 and the primes 4 k + 1
IsPowPrime(p) == IsPrime(p) /\ (p = 2 \/ p % 4 = 1)

\* every representation of such a prime with components in 0 .. MaxComp,
\* in both orders of the components
BaseReps ==
    {r \in (0 .. MaxComp) \X (0 .. MaxComp) : IsPowPrime(r[1] * r[1] + r[2] * r[2])}

InitPow ==
    /\ pc = "rep_prime_power"
    /\ args \in BaseReps \X (1 .. MaxK)
    /\ ret = <<>>
    /\ n = 0
    /\ Idle

CallRepPrimePower ==
    /\ pc = "rep_prime_power"
    /\ ret' = rep_prime_power(args[1], args[2])
    /\ pc' = "rep_prime_power_done"
    /\ UNCHANGED <<n, fac, r2, candidates, prime_reps, nonres, reps, i, result, args>>

SpecPow == InitPow /\ [][CallRepPrimePower]_vars

(***************************************************************************)
(* Reference notions the properties are stated with.                       *)
(***************************************************************************)
Terminal == {"done", "ValueError", "TypeError", "ZeroDivisionError"}

\* every <<a, b>> with 0 <= a <= b and a * a + b * b = m, for m >= 0
BruteReps(m) ==
    {<<a, ISqrt(m - a * a)>> :
        a \in {x \in 0 .. ISqrt(m) :
                  LET y == ISqrt(m - x * x) IN y * y = m - x * x /\ x <= y}}

SetOf(seq) == {seq[k] : k \in 1 .. Len(seq)}

IsResidue(g, p) == \E y \in 1 .. (p - 1) : (y * y) % p = g % p

\* the least quadratic non-residue of the odd prime p
LeastNonresidue(p) ==
    CHOOSE g \in 2 .. (p - 1) :
        ~IsResidue(g, p) /\ \A h \in 2 .. (g - 1) : IsResidue(h, p)

\* m has a prime 3 (mod 4) with odd exponent
OddThreeModFour(m) ==
    LET f == factorint(m)
    IN \E k \in 1 .. Len(f) : f[k][1] % 4 = 3 /\ f[k][2] % 2 = 1

(***************************************************************************)
(* Properties of sum_of_two_squares, under Spec.                           *)
(***************************************************************************)

\* C1: every pair <<a, b>> of the list sum_of_two_squares(n) returns has
\* a * a + b * b = n and 0 <= a <= b.
ReturnedPairsRepresent ==
    pc = "done" =>
        \A k \in 1 .. Len(result.list) :
            LET a == result.list[k][1]
                b == result.list[k][2]
            IN a * a + b * b = n /\ 0 <= a /\ a <= b

\* a product of several primes was returned with more than one pair
SeveralPairsReturned ==
    pc = "done" /\ Len(fac) >= 2 /\ Len(result.list) >= 2

\* C2: sum_of_two_squares(n) returns a list for every n >= 0, and every
\* <<a, b>> with 0 <= a <= b and a * a + b * b = n occurs in it.
ReturnsEveryRepresentation ==
    (pc \in Terminal /\ n >= 0) =>
        /\ pc = "done"
        /\ BruteReps(n) \subseteq SetOf(result.list)

\* the part of C2 that holds: a list that is returned is complete
CompleteWhenReturned ==
    pc = "done" => BruteReps(n) \subseteq SetOf(result.list)

\* C3: sum_of_two_squares(n) returns a count for every n >= 0, and the
\* count is r_2(n) = 4 * (d1(n) - d3(n)), with r_2(0) = 1.
ReturnsDivisorCount ==
    (pc \in Terminal /\ n >= 0) =>
        /\ pc = "done"
        /\ result.count = r_2(n)

\* the part of C3 that holds: a count that is returned is r_2(n)
CountAgreesWhenReturned ==
    pc = "done" => result.count = r_2(n)

\* C4: the list sum_of_two_squares(n) returns is strictly ascending in the
\* lexicographic order of the pairs (so no pair occurs twice).
ReturnedListAscending ==
    pc = "done" =>
        \A k \in 1 .. Len(result.list) - 1 :
            LexLess(result.list[k], result.list[k + 1])

\* the composition built some pair more than once before line 129
DuplicatesRemoved ==
    pc = "done" /\ Len(result.list) >= 2 /\ Len(reps) > Len(result.list)

\* C5: for n >= 2 with a prime 3 (mod 4) of odd exponent the call returns
\* count 0 and the empty list; for every other n >= 2 it returns a non-empty
\* list.
FeasibilityGate ==
    (pc \in Terminal /\ n >= 2) =>
        /\ pc = "done"
        /\ IF OddThreeModFour(n)
           THEN result = [count |-> 0, list |-> <<>>]
           ELSE Len(result.list) > 0

\* C6: for n < 0 the call ends with ValueError, with nothing factorized or
\* composed and no count and no list produced.
NegativeRejected ==
    n < 0 => /\ pc \in {"start", "ValueError"}
             /\ Idle

\* a negative input has been rejected
NegativeRaised == pc = "ValueError" /\ n < 0

\* C7: every call of find_quadratic_nonresidue(p, candidates) made by
\* sum_of_two_squares returns the least quadratic non-residue of p, the
\* value a call with a fresh candidate sequence returns.
SharedCandidatesGiveLeast ==
    \A p \in DOMAIN nonres :
        /\ nonres[p].found
        /\ nonres[p] = find_quadratic_nonresidue_fresh(p)
        /\ nonres[p].q = LeastNonresidue(p)

IsSortedOf(pr, u, v) ==
    /\ pr[1] <= pr[2]
    /\ (pr[1] = u /\ pr[2] = v) \/ (pr[1] = v /\ pr[2] = u)

\* C9: rep_prod(a, b, c, d) returns sorted(|ac+bd|, |ad-bc|) and
\* sorted(|ac-bd|, |ad+bc|), as two pairs when they differ and as one when
\* they are the same; every pair <<x, y>> returned has 0 <= x <= y and
\* x * x + y * y = (a * a + b * b) * (c * c + d * d).
ProdPairs ==
    pc = "rep_prod_done" =>
        LET a == args[1]
            b == args[2]
            c == args[3]
            d == args[4]
            first == ret[1]
            last == ret[Len(ret)]
        IN /\ Len(ret) \in {1, 2}
           /\ IsSortedOf(first, Abs(a * c + b * d), Abs(a * d - b * c))
           /\ IsSortedOf(last, Abs(a * c - b * d), Abs(a * d + b * c))
           /\ Len(ret) = 2 => first # last
           /\ \A k \in 1 .. Len(ret) :
                  /\ 0 <= ret[k][1] /\ ret[k][1] <= ret[k][2]
                  /\ ret[k][1] * ret[k][1] + ret[k][2] * ret[k][2]
                         = (a * a + b * b) * (c * c + d * d)

\* two different pairs were returned for arguments of mixed sign
TwoPairsFromSignedArgs ==
    pc = "rep_prod_done" /\ Len(ret) = 2 /\ args[1] < 0 /\ args[4] > 0

(***************************************************************************)
(* Properties of rep_prime_power, under SpecPow.                           *)
(***************************************************************************)
RECURSIVE RoundFrom(_, _, _)
\* the rep_prod outputs of cur[j], cur[j + 1], ... composed with r0
RoundFrom(cur, j, r0) ==
    IF j > Len(cur) THEN <<>>
    ELSE rep_prod(cur[j][1], cur[j][2], r0[1], r0[2]) \o RoundFrom(cur, j + 1, r0)

RECURSIVE Rounds(_, _, _)
\* cur after m rounds
Rounds(m, cur, r0) ==
    IF m = 0 THEN cur ELSE Rounds(m - 1, RoundFrom(cur, 1, r0), r0)

\* C10: rep_prime_power(r0, k) is the result of k - 1 rounds from [r0], each
\* round replacing the list by the rep_prod outputs of all its pairs composed
\* with r0; every pair returned has squares summing to p^k, and the pairs
\* returned, each put in order, include every representation of p^k.
PowerRounds ==
    pc = "rep_prime_power_done" =>
        LET r0 == args[1]
            k == args[2]
            pk == IntPow(r0[1] * r0[1] + r0[2] * r0[2], k)
        IN /\ ret = Rounds(k - 1, <<r0>>, r0)
           /\ \A j \in 1 .. Len(ret) :
                  ret[j][1] * ret[j][1] + ret[j][2] * ret[j][2] = pk
           /\ BruteReps(pk) \subseteq
                  {SortedPair(ret[j][1], ret[j][2]) : j \in 1 .. Len(ret)}

\* a power of at least 3 of a prime given with its larger component first
PowerOfDescendingBase ==
    /\ pc = "rep_prime_power_done"
    /\ args[2] >= 3
    /\ args[1][1] > args[1][2]
    /\ Len(ret) >= 3

====
